---- MODULE Spec2Model ----
(***************************************************************************)
(* Model of notbadai_ide.api.ExtensionAPI (src/notbadai_ide/api.py): the   *)
(* thread-local session context built by load(), dropped by cleanup(),     *)
(* read by the 16 accessors and used by the 9 outbound actions.            *)
(*                                                                         *)
(* Encoding of Python values:                                              *)
(*   - a dict / an attribute namespace is a TLA+ function whose DOMAIN is  *)
(*     the set of keys present; the empty dict and the empty list are <<>> *)
(*   - None in a string position is the string "None" (no payload string   *)
(*     has that value); None in an object position is NoneObj              *)
(*   - a call's outcome is Ret(v) or Raise(e)                              *)
(***************************************************************************)
EXTENDS Integers, Sequences, FiniteSets, TLC

VARIABLES
    local,      \* local[t]: the attributes of self._local as seen by thread t
    config,     \* the process-wide config (host, port); <<>> before configure()
    last,       \* the most recent call: who, what, its inputs and its outcome
    phase,      \* phase[t]: "never" | "loaded" | "failed" | "cleaned" (history)
    payload     \* payload[t]: data of t's most recent successful load (history)

vars == <<local, config, last, phase, payload>>

(***************************************************************************)
(* Bounds of the model                                                     *)
(***************************************************************************)
NumThreads == 2
MaxTerminals == 2

Threads == 1..NumThreads

(***************************************************************************)
(* Python values                                                           *)
(***************************************************************************)
None == "None"
NoneObj == [is_none |-> TRUE]
EmptyDict == <<>>
EmptyList == <<>>

Ret(v) == [ok |-> TRUE, val |-> v]
Raise(e) == [ok |-> FALSE, exc |-> e]

\* dict.get(k, d)
DictGet(d, k, default) == IF k \in DOMAIN d THEN d[k] ELSE default

\* self._local.<k> = v
SetAttr(loc, k, v) == (k :> v) @@ loc

\* hasattr(self._local, k)
HasAttr(loc, k) == k \in DOMAIN loc

\* the dict without key k
Omit(d, k) == [x \in DOMAIN d \ {k} |-> d[x]]

(***************************************************************************)
(* Value objects of notbadai_ide.models, built positionally / by keyword   *)
(***************************************************************************)
File2(path, repo_path) == [path |-> path, repo_path |-> repo_path]
File4(path, repo_path, content, is_open) ==
    [path |-> path, repo_path |-> repo_path, content |-> content, is_open |-> is_open]
Message(m) == [cls |-> "Message", fields |-> m]
Cursor(c) == [cls |-> "Cursor", fields |-> c]
APIKey(k) == [cls |-> "APIKey", fields |-> k]
Terminal(name, is_current) == [name |-> name, is_current |-> is_current]
CodeApplyChange(target_file_path, repo_path, patch_text) ==
    [target_file_path |-> target_file_path, repo_path |-> repo_path,
     patch_text |-> patch_text]

\* the elements of a list, as a set
Elems(s) == {s[i] : i \in DOMAIN s}

(***************************************************************************)
(* The process environment read by load()                                  *)
(***************************************************************************)
GoodEnv == [EXTENSION_UUID |-> "u1", HOST |-> "localhost", PORT |-> "8080"]
Envs ==
    { GoodEnv,
      Omit(GoodEnv, "EXTENSION_UUID"),
      Omit(GoodEnv, "HOST"),
      Omit(GoodEnv, "PORT"),
      [GoodEnv EXCEPT !.PORT = "http"] }

\* int(s) for the PORT strings of Envs: Ret(n), or ValueError
ParseInt(s) == IF s = "8080" THEN Ret(8080) ELSE Raise("ValueError")

\* config.configure(host, port)
Configure(host, port) == [host |-> host, port |-> port]

(***************************************************************************)
(* The payloads the host can answer with                                   *)
(***************************************************************************)
Pick(v, a, b) == IF v = 1 THEN a ELSE b

FullPayload(v) ==
    [request_id |-> Pick(v, "r1", "r2"),
     repo_path |-> Pick(v, "/proj1", "/proj2"),
     repo |-> <<"a.py", "b.py">>,
     opened_files |-> Pick(v, <<"b.py">>, <<"a.py">>),
     current_file |-> Pick(v, "a.py", "b.py"),
     current_file_content |-> Pick(v, "x = 1", "y = 2"),
     context_files |-> Pick(v, [docs |-> <<"a.py">>], [docs |-> <<"b.py">>]),
     cursor |-> [row |-> v, column |-> 0],
     selection |-> Pick(v, "sel1", "sel2"),
     clip_board |-> Pick(v, "clip1", "clip2"),
     prompt |-> Pick(v, "prompt1", "prompt2"),
     chat_history |-> << [role |-> "user", content |-> Pick(v, "q1", "q2")] >>,
     current_terminal |-> Pick(v, "t1", "t2"),
     terminals |-> <<"t1", "t2">>,
     api_keys |-> [openrouter |-> [provider |-> "openrouter",
                                   key |-> Pick(v, "k1", "k2")]],
     settings |-> [theme |-> Pick(v, "dark", "light")],
     ui_action |-> [action |-> Pick(v, "click1", "click2")],
     code_apply_change |-> [target_file_path |-> "a.py",
                            patch_text |-> Pick(v, "patch1", "patch2")]]

\* the payload of the spec's concrete scenario: the keys load() indexes directly,
\* opened_files and an empty context_files
MinimalPayload(v) ==
    [request_id |-> Pick(v, "r1", "r2"),
     repo_path |-> Pick(v, "/proj1", "/proj2"),
     repo |-> <<"x.py">>,
     opened_files |-> EmptyList,
     current_file |-> None,
     context_files |-> EmptyDict,
     cursor |-> NoneObj]

PayloadKeys == DOMAIN FullPayload(1)

\* the keys load() cannot do without: those it indexes directly (lines 29, 30, 43, 45,
\* 57) and opened_files, whose absence makes set(None) of line 42 raise
RequiredKeys == {"request_id", "repo_path", "repo", "current_file", "cursor", "opened_files"}

(***************************************************************************)
(* What the host can answer to one HTTP request                            *)
(***************************************************************************)
ConnectionFailure == [error |-> "ConnectionError"]
HttpReply(status) == [status |-> status]
JsonReply(status, json) == [status |-> status, json |-> json]

\* requests.Response.raise_for_status(): 4xx and 5xx raise HTTPError
IsErrorStatus(status) == status >= 400 /\ status < 600

PostReplies == {HttpReply(200), HttpReply(404), HttpReply(500), ConnectionFailure}

ResponseUrl(cfg, uuid) ==
    [host |-> cfg.host, port |-> cfg.port, path |-> "/api/extension/response/",
     uuid |-> uuid]

(***************************************************************************)
(* ExtensionAPI._load_data: Ret(data) or the exception raised              *)
(***************************************************************************)
_load_data(loc, cfg, resp) ==
    IF "error" \in DOMAIN resp THEN Raise(resp.error)
    ELSE IF IsErrorStatus(resp.status) THEN Raise("HTTPError")
    ELSE IF "json" \notin DOMAIN resp THEN Raise("JSONDecodeError")
    ELSE IF "data" \notin DOMAIN resp.json THEN Raise("KeyError")
    ELSE Ret(resp.json.data)

(***************************************************************************)
(* ExtensionAPI.load, in the order of its statements. Every step works on  *)
(* the namespace left by the step before it; an exception leaves what was   *)
(* assigned so far.                                                        *)
(***************************************************************************)
LoadResult(loc, cfg, res) == [local |-> loc, config |-> cfg, res |-> res]

\* AssignOptional with prompt defaulting to the empty string
AssignOptionalEmptyPrompt(loc, kw) ==
    LET l1 == SetAttr(loc, "selection", DictGet(kw, "selection", None))
        l2 == SetAttr(l1, "clip_board", DictGet(kw, "clip_board", None))
        l3 == SetAttr(l2, "prompt", DictGet(kw, "prompt", ""))
        ch == DictGet(kw, "chat_history", EmptyList)
        l4 == SetAttr(l3, "chat_history", [i \in DOMAIN ch |-> Message(ch[i])])
        l5 == SetAttr(l4, "current_terminal", DictGet(kw, "current_terminal", None))
        l6 == SetAttr(l5, "terminals", DictGet(kw, "terminals", EmptyList))
        l7 == SetAttr(l6, "api_keys", DictGet(kw, "api_keys", EmptyDict))
        l8 == SetAttr(l7, "settings", DictGet(kw, "settings", EmptyDict))
        l9 == SetAttr(l8, "ui_action", DictGet(kw, "ui_action", NoneObj))
    IN  SetAttr(l9, "code_apply_change", DictGet(kw, "code_apply_change", NoneObj))

\* AssignOptional assigning selection only when the payload carries it
AssignOptionalKeepSelection(loc, kw) ==
    LET l1 == IF "selection" \in DOMAIN kw THEN SetAttr(loc, "selection", kw.selection)
              ELSE loc
        l2 == SetAttr(l1, "clip_board", DictGet(kw, "clip_board", None))
        l3 == SetAttr(l2, "prompt", DictGet(kw, "prompt", None))
        ch == DictGet(kw, "chat_history", EmptyList)
        l4 == SetAttr(l3, "chat_history", [i \in DOMAIN ch |-> Message(ch[i])])
        l5 == SetAttr(l4, "current_terminal", DictGet(kw, "current_terminal", None))
        l6 == SetAttr(l5, "terminals", DictGet(kw, "terminals", EmptyList))
        l7 == SetAttr(l6, "api_keys", DictGet(kw, "api_keys", EmptyDict))
        l8 == SetAttr(l7, "settings", DictGet(kw, "settings", EmptyDict))
        l9 == SetAttr(l8, "ui_action", DictGet(kw, "ui_action", NoneObj))
    IN  SetAttr(l9, "code_apply_change", DictGet(kw, "code_apply_change", NoneObj))

\* lines 31-40: the ten fields read with kwargs.get(key, default)
AssignOptional(loc, kw) ==
    LET l1 == SetAttr(loc, "selection", DictGet(kw, "selection", None))
        l2 == SetAttr(l1, "clip_board", DictGet(kw, "clip_board", None))
        l3 == SetAttr(l2, "prompt", DictGet(kw, "prompt", None))
        ch == DictGet(kw, "chat_history", EmptyList)
        l4 == SetAttr(l3, "chat_history", [i \in DOMAIN ch |-> Message(ch[i])])
        l5 == SetAttr(l4, "current_terminal", DictGet(kw, "current_terminal", None))
        l6 == SetAttr(l5, "terminals", DictGet(kw, "terminals", EmptyList))
        l7 == SetAttr(l6, "api_keys", DictGet(kw, "api_keys", EmptyDict))
        l8 == SetAttr(l7, "settings", DictGet(kw, "settings", EmptyDict))
        l9 == SetAttr(l8, "ui_action", DictGet(kw, "ui_action", NoneObj))
    IN  SetAttr(l9, "code_apply_change", DictGet(kw, "code_apply_change", NoneObj))

\* line 43: one File per repository path, flagged opened or not
RepoFiles(loc, kw) ==
    LET opened_files == Elems(kw.opened_files)
    IN  [i \in DOMAIN kw.repo |->
            File4(kw.repo[i], loc.repo_path, None, kw.repo[i] \in opened_files)]

\* lines 45-49
CurrentFile(loc, kw) ==
    IF kw.current_file # None
    THEN File4(kw.current_file, loc.repo_path,
               DictGet(kw, "current_file_content", None), TRUE)
    ELSE NoneObj

\* lines 51-55
ContextFiles(loc, kw) ==
    LET groups == DictGet(kw, "context_files", EmptyDict)
    IN  [entry \in DOMAIN groups |->
            [i \in DOMAIN groups[entry] |-> File2(groups[entry][i], loc.repo_path)]]

\* lines 57-60
CursorOf(kw) == IF kw.cursor # NoneObj THEN Cursor(kw.cursor) ELSE NoneObj

\* lines 29-60: the context built from the fetched data
Populate(loc, cfg, kw) ==
    IF "request_id" \notin DOMAIN kw THEN LoadResult(loc, cfg, Raise("KeyError")) ELSE
    LET l1 == SetAttr(loc, "request_id", kw.request_id) IN
    IF "repo_path" \notin DOMAIN kw THEN LoadResult(l1, cfg, Raise("KeyError")) ELSE
    LET l2 == SetAttr(l1, "repo_path", kw.repo_path)
        l3 == AssignOptional(l2, kw) IN
    \* set(kwargs.get('opened_files')) is set(None) when the key is absent
    IF "opened_files" \notin DOMAIN kw THEN LoadResult(l3, cfg, Raise("TypeError")) ELSE
    IF "repo" \notin DOMAIN kw THEN LoadResult(l3, cfg, Raise("KeyError")) ELSE
    LET l4 == SetAttr(l3, "repo_files", RepoFiles(l3, kw)) IN
    IF "current_file" \notin DOMAIN kw THEN LoadResult(l4, cfg, Raise("KeyError")) ELSE
    LET l5 == SetAttr(l4, "current_file", CurrentFile(l4, kw))
        l6 == SetAttr(l5, "context_files", ContextFiles(l5, kw)) IN
    IF "cursor" \notin DOMAIN kw THEN LoadResult(l6, cfg, Raise("KeyError")) ELSE
    LoadResult(SetAttr(l6, "cursor", CursorOf(kw)), cfg, Ret(None))

load(loc, cfg, env, resp) ==
    IF "EXTENSION_UUID" \notin DOMAIN env THEN LoadResult(loc, cfg, Raise("KeyError")) ELSE
    LET l1 == SetAttr(loc, "uuid", env.EXTENSION_UUID) IN
    IF "HOST" \notin DOMAIN env THEN LoadResult(l1, cfg, Raise("KeyError")) ELSE
    IF "PORT" \notin DOMAIN env THEN LoadResult(l1, cfg, Raise("KeyError")) ELSE
    LET port == ParseInt(env.PORT) IN
    IF ~port.ok THEN LoadResult(l1, cfg, port) ELSE
    LET cfg1 == Configure(env.HOST, port.val)
        kwargs == _load_data(l1, cfg1, resp) IN
    IF ~kwargs.ok THEN LoadResult(l1, cfg1, kwargs) ELSE
    Populate(l1, cfg1, kwargs.val)

(***************************************************************************)
(* ExtensionAPI.cleanup: self._local.__dict__.clear(). A threading.local   *)
(* always has a __dict__, so the hasattr test of line 63 never skips it.   *)
(***************************************************************************)
NoAttrs == <<>>

\* cleanup that clears nothing, as if the hasattr test of line 63 were false
cleanup_noop(loc) == loc

\* cleanup that drops the payload's fields and keeps the two identifiers
cleanup_keeps_ids(loc) == [k \in DOMAIN loc \cap {"uuid", "request_id"} |-> loc[k]]

cleanup(loc) == NoAttrs

(***************************************************************************)
(* The accessors: Ret(value) or Raise(exception)                           *)
(***************************************************************************)
\* the read self._local.<k>
GetAttr(loc, k) == IF HasAttr(loc, k) THEN Ret(loc[k]) ELSE Raise("AttributeError")

get_repo_files(loc) == GetAttr(loc, "repo_files")
get_repo_path(loc) == GetAttr(loc, "repo_path")
get_current_file(loc) == GetAttr(loc, "current_file")
get_selection(loc) == GetAttr(loc, "selection")
get_clip_board(loc) == GetAttr(loc, "clip_board")
get_cursor(loc) == GetAttr(loc, "cursor")
get_chat_history(loc) == GetAttr(loc, "chat_history")

get_current_terminal(loc) ==
    IF ~HasAttr(loc, "current_terminal") THEN Raise("AttributeError")
    ELSE Ret(Terminal(loc.current_terminal, TRUE))

\* get_terminals flagging every entry, as get_current_terminal flags its own
get_terminals_all_current(loc) ==
    IF ~HasAttr(loc, "terminals") THEN Raise("AttributeError")
    ELSE Ret([i \in DOMAIN loc.terminals |-> Terminal(loc.terminals[i], TRUE)])

get_terminals(loc) ==
    IF ~HasAttr(loc, "terminals") THEN Raise("AttributeError")
    ELSE IF loc.terminals # EmptyList /\ ~HasAttr(loc, "current_terminal")
         THEN Raise("AttributeError")
    ELSE Ret([i \in DOMAIN loc.terminals |->
                Terminal(loc.terminals[i], loc.terminals[i] = loc.current_terminal)])

get_code_apply_change(loc) ==
    IF ~HasAttr(loc, "code_apply_change") THEN Raise("AttributeError") ELSE
    LET data == loc.code_apply_change IN
    \* data['target_file_path'] with data None
    IF data = NoneObj THEN Raise("TypeError") ELSE
    IF "target_file_path" \notin DOMAIN data THEN Raise("KeyError") ELSE
    IF ~HasAttr(loc, "repo_path") THEN Raise("AttributeError") ELSE
    IF "patch_text" \notin DOMAIN data THEN Raise("KeyError") ELSE
    Ret(CodeApplyChange(data.target_file_path, loc.repo_path, data.patch_text))

get_context_files(loc) == GetAttr(loc, "context_files")
get_prompt(loc) == GetAttr(loc, "prompt")

get_api_key(loc, provider) ==
    IF ~HasAttr(loc, "api_keys") THEN Raise("AttributeError")
    ELSE IF provider \in DOMAIN loc.api_keys THEN Ret(APIKey(loc.api_keys[provider]))
    ELSE Ret(NoneObj)

\* the keys of a dict in the order Python iterates them (one fixed order)
RECURSIVE KeyList(_)
KeyList(keys) ==
    IF keys = {} THEN <<>>
    ELSE LET k == CHOOSE x \in keys : TRUE IN <<k>> \o KeyList(keys \ {k})

get_api_keys(loc) ==
    IF ~HasAttr(loc, "api_keys") THEN Raise("AttributeError")
    ELSE LET ks == KeyList(DOMAIN loc.api_keys)
         IN  Ret([i \in DOMAIN ks |-> APIKey(loc.api_keys[ks[i]])])

get_setting(loc, setting) ==
    IF ~HasAttr(loc, "settings") THEN Raise("AttributeError")
    ELSE Ret(DictGet(loc.settings, setting, None))

get_ui_action(loc) == GetAttr(loc, "ui_action")

Providers == {"openrouter", "deepinfra"}
Settings == {"theme", "font"}

(***************************************************************************)
(* ExtensionAPI._dump: the outcome of the call and the POSTs it issued.    *)
(* The response of requests.post is dropped, whatever its status; only a   *)
(* failure of the connection raises. The assert of line 67 holds for the   *)
(* keyword arguments of all nine callers.                                  *)
(***************************************************************************)
DumpResult(res, posts) == [res |-> res, posts |-> posts]

Body(loc, method, kwargs) ==
    ("method" :> method) @@ ("request_id" :> loc.request_id) @@ kwargs

_dump(loc, cfg, method, kwargs, reply) ==
    IF ~HasAttr(loc, "request_id") THEN DumpResult(Raise("AttributeError"), <<>>)
    ELSE IF ~HasAttr(loc, "uuid") THEN DumpResult(Raise("AttributeError"), <<>>)
    ELSE LET post == [url |-> ResponseUrl(cfg, loc.uuid),
                      json |-> Body(loc, method, kwargs)]
         IN  IF "error" \in DOMAIN reply
             THEN DumpResult(Raise(reply.error), <<post>>)
             ELSE DumpResult(Ret(None), <<post>>)

\* the nine actions, each with the keyword arguments it passes to _dump
chat(loc, cfg, content, reply) ==
    _dump(loc, cfg, "chat", [content |-> content], reply)
end_chat(loc, cfg, reply) == _dump(loc, cfg, "end_chat", <<>>, reply)
start_chat(loc, cfg, reply) == _dump(loc, cfg, "start_chat", <<>>, reply)
autocomplete(loc, cfg, suggestions, reply) ==
    _dump(loc, cfg, "autocomplete", [suggestions |-> suggestions], reply)
update_file(loc, cfg, patch, matches, reply) ==
    _dump(loc, cfg, "update_file", [patch |-> patch, matches |-> matches], reply)
highlight(loc, cfg, results, reply) ==
    _dump(loc, cfg, "highlight", [results |-> results], reply)
inline_completion(loc, cfg, text, cursor_row, cursor_column, reply) ==
    _dump(loc, cfg, "inline_completion",
          [content |-> text, cursor_row |-> cursor_row, cursor_column |-> cursor_column],
          reply)
\* log sending the method name of chat
log_as_chat(loc, cfg, message, reply) ==
    _dump(loc, cfg, "chat", [content |-> message], reply)
log(loc, cfg, message, reply) == _dump(loc, cfg, "log", [content |-> message], reply)
ui_form(loc, cfg, title, form_content, reply) ==
    _dump(loc, cfg, "ui_form", [title |-> title, form_content |-> form_content], reply)

(***************************************************************************)
(* The state machine: threads call the public methods in any order         *)
(***************************************************************************)
\* self._local is a threading.local: an assignment made by thread t is seen by t only
\* self._local as a plain object shared by all threads
SharedSet(loc, t, ns) == [u \in DOMAIN loc |-> ns]
ThreadLocalSet(loc, t, ns) == [loc EXCEPT ![t] = ns]

\* what the host answers to load()'s GET, for the payloads it may hold; a load that
\* fails on its environment makes no request
NoReply == <<>>

Replies(payloads) ==
    {ConnectionFailure, HttpReply(200), JsonReply(500, EmptyDict), JsonReply(200, EmptyDict)}
        \cup {JsonReply(200, [data |-> p]) : p \in payloads}

\* one call as seen from outside: the caller, the method, its arguments, the namespace
\* it found, the host's answer to its HTTP request, its outcome and the POSTs it issued
CallRecord(t, op, args, before, reply, res, posts) ==
    [thread |-> t, op |-> op, args |-> args, before |-> before, reply |-> reply,
     res |-> res, posts |-> posts]

Init ==
    /\ local = [t \in Threads |-> NoAttrs]
    /\ config = <<>>
    /\ last = CallRecord(0, "init", <<>>, NoAttrs, NoReply, Ret(None), <<>>)
    /\ phase = [t \in Threads |-> "never"]
    /\ payload = [t \in Threads |-> <<>>]

Load(t, env, reply) ==
    LET r == load(local[t], config, env, reply) IN
    /\ local' = ThreadLocalSet(local, t, r.local)
    /\ config' = r.config
    /\ last' = CallRecord(t, "load", [env |-> env], local[t], reply, r.res, <<>>)
    /\ phase' = [phase EXCEPT ![t] = IF r.res.ok THEN "loaded" ELSE "failed"]
    /\ payload' = [payload EXCEPT ![t] = IF r.res.ok THEN reply.json.data ELSE @]

Cleanup(t) ==
    /\ local' = ThreadLocalSet(local, t, cleanup(local[t]))
    /\ last' = CallRecord(t, "cleanup", <<>>, local[t], NoReply, Ret(None), <<>>)
    /\ phase' = [phase EXCEPT ![t] = "cleaned"]
    /\ payload' = [payload EXCEPT ![t] = <<>>]
    /\ UNCHANGED config

\* an accessor call: it changes nothing and returns res
Access(t, op, args, res) ==
    /\ last' = CallRecord(t, op, args, local[t], NoReply, res, <<>>)
    /\ UNCHANGED <<local, config, phase, payload>>

GetRepoFiles(t) == Access(t, "get_repo_files", <<>>, get_repo_files(local[t]))
GetRepoPath(t) == Access(t, "get_repo_path", <<>>, get_repo_path(local[t]))
GetCurrentFile(t) == Access(t, "get_current_file", <<>>, get_current_file(local[t]))
GetSelection(t) == Access(t, "get_selection", <<>>, get_selection(local[t]))
GetClipBoard(t) == Access(t, "get_clip_board", <<>>, get_clip_board(local[t]))
GetCursor(t) == Access(t, "get_cursor", <<>>, get_cursor(local[t]))
GetChatHistory(t) == Access(t, "get_chat_history", <<>>, get_chat_history(local[t]))
GetCurrentTerminal(t) ==
    Access(t, "get_current_terminal", <<>>, get_current_terminal(local[t]))
GetTerminals(t) == Access(t, "get_terminals", <<>>, get_terminals(local[t]))
GetCodeApplyChange(t) ==
    Access(t, "get_code_apply_change", <<>>, get_code_apply_change(local[t]))
GetContextFiles(t) == Access(t, "get_context_files", <<>>, get_context_files(local[t]))
GetPrompt(t) == Access(t, "get_prompt", <<>>, get_prompt(local[t]))
GetApiKey(t, providers) ==
    \E provider \in providers :
        Access(t, "get_api_key", [provider |-> provider], get_api_key(local[t], provider))
GetApiKeys(t) == Access(t, "get_api_keys", <<>>, get_api_keys(local[t]))
GetSetting(t, settings) ==
    \E setting \in settings :
        Access(t, "get_setting", [setting |-> setting], get_setting(local[t], setting))
GetUiAction(t) == Access(t, "get_ui_action", <<>>, get_ui_action(local[t]))

\* an outbound action call: it changes nothing here and leaves r.posts on the wire
Act(t, op, reply, r) ==
    /\ last' = CallRecord(t, op, <<>>, local[t], reply, r.res, r.posts)
    /\ UNCHANGED <<local, config, phase, payload>>

Chat(t, replies) ==
    \E reply \in replies : Act(t, "chat", reply, chat(local[t], config, "hello", reply))
EndChat(t, replies) ==
    \E reply \in replies : Act(t, "end_chat", reply, end_chat(local[t], config, reply))
StartChat(t, replies) ==
    \E reply \in replies : Act(t, "start_chat", reply, start_chat(local[t], config, reply))
Autocomplete(t, replies) ==
    \E reply \in replies :
        Act(t, "autocomplete", reply,
            autocomplete(local[t], config, <<[label |-> "foo"]>>, reply))
UpdateFile(t, replies) ==
    \E reply \in replies :
        Act(t, "update_file", reply,
            update_file(local[t], config, <<"+ line">>, <<<<0, 1>>>>, reply))
Highlight(t, replies) ==
    \E reply \in replies :
        Act(t, "highlight", reply,
            highlight(local[t], config, <<[row |-> 1, style |-> "warn"]>>, reply))
InlineCompletion(t, replies) ==
    \E reply \in replies :
        Act(t, "inline_completion", reply,
            inline_completion(local[t], config, "text", None, None, reply))
Log(t, replies) ==
    \E reply \in replies : Act(t, "log", reply, log(local[t], config, "msg", reply))
UiForm(t, replies) ==
    \E reply \in replies :
        Act(t, "ui_form", reply, ui_form(local[t], config, "title", "<form/>", reply))

Accessor(t, providers, settings) ==
    \/ GetRepoFiles(t) \/ GetRepoPath(t) \/ GetCurrentFile(t) \/ GetSelection(t)
    \/ GetClipBoard(t) \/ GetCursor(t) \/ GetChatHistory(t) \/ GetCurrentTerminal(t)
    \/ GetTerminals(t) \/ GetCodeApplyChange(t) \/ GetContextFiles(t) \/ GetPrompt(t)
    \/ GetApiKey(t, providers) \/ GetApiKeys(t) \/ GetSetting(t, settings)
    \/ GetUiAction(t)

Action(t, replies) ==
    \/ Chat(t, replies) \/ EndChat(t, replies) \/ StartChat(t, replies)
    \/ Autocomplete(t, replies) \/ UpdateFile(t, replies) \/ Highlight(t, replies)
    \/ InlineCompletion(t, replies) \/ Log(t, replies) \/ UiForm(t, replies)

AccessorNames ==
    {"get_repo_files", "get_repo_path", "get_current_file", "get_selection",
     "get_clip_board", "get_cursor", "get_chat_history", "get_current_terminal",
     "get_terminals", "get_code_apply_change", "get_context_files", "get_prompt",
     "get_api_key", "get_api_keys", "get_setting", "get_ui_action"}

ActionNames ==
    {"chat", "end_chat", "start_chat", "autocomplete", "update_file", "highlight",
     "inline_completion", "log", "ui_form"}

(***************************************************************************)
(* Spec: worker threads sharing one ExtensionAPI object, any interleaving  *)
(***************************************************************************)
SharedPayloads == {FullPayload(1), MinimalPayload(2)}
SharedReplies ==
    {JsonReply(500, EmptyDict)} \cup {JsonReply(200, [data |-> p]) : p \in SharedPayloads}

Next ==
    \E t \in Threads :
        \/ \E reply \in SharedReplies : Load(t, GoodEnv, reply)
        \/ Cleanup(t)
        \/ Accessor(t, {"openrouter"}, {"theme"})
        \/ Action(t, {HttpReply(200)})

Spec == Init /\ [][Next]_vars

(***************************************************************************)
(* SpecSession: the life of one thread's context, with every way load()    *)
(* can fail and every answer the host can give to a POST                   *)
(***************************************************************************)
\* the thread whose session is followed
MainThread == CHOOSE t \in Threads : \A u \in Threads : t <= u

SessionPayloads ==
    {FullPayload(1), FullPayload(2), MinimalPayload(2)}
        \cup {Omit(FullPayload(2), k) : k \in RequiredKeys}

LoadSession(t) ==
    \E env \in Envs :
        \E reply \in IF env = GoodEnv THEN Replies(SessionPayloads) ELSE {NoReply} :
            Load(t, env, reply)

NextSession ==
    \/ LoadSession(MainThread)
    \/ Cleanup(MainThread)
    \/ Accessor(MainThread, Providers, Settings)
    \/ Action(MainThread, PostReplies)

SpecSession == Init /\ [][NextSession]_vars

(***************************************************************************)
(* SpecPayload: load() as a function of the payload. A thread with no      *)
(* context loads any payload of a wide family, reads it through every      *)
(* accessor and cleans up.                                                 *)
(***************************************************************************)
TerminalIds == {"t1", "t2"}

\* the lists over S of length at most n
ListsOver(S, n) == UNION {[1..k -> S] : k \in 0..n}

\* payloads whose terminals and current_terminal take every shape: any list with
\* repetitions, the active identifier absent, null, in the list or not in it
TerminalPayloads ==
    {MinimalPayload(1) @@ [terminals |-> ts] :
        ts \in ListsOver(TerminalIds, MaxTerminals)}
    \cup
    {MinimalPayload(1) @@ [terminals |-> ts, current_terminal |-> cur] :
        ts \in ListsOver(TerminalIds, MaxTerminals), cur \in TerminalIds \cup {"t9", None}}

\* the documented nulls: current_file, current_file_content, cursor
NullPayloads ==
    {[FullPayload(v) EXCEPT !.current_file = None] : v \in {1, 2}}
    \cup {[FullPayload(v) EXCEPT !.current_file_content = None] : v \in {1, 2}}
    \cup {[FullPayload(v) EXCEPT !.cursor = NoneObj] : v \in {1, 2}}

WidePayloads ==
    {FullPayload(v) : v \in {1, 2}} \cup {MinimalPayload(v) : v \in {1, 2}}
    \cup {Omit(FullPayload(v), k) : v \in {1, 2}, k \in PayloadKeys}
    \cup {Omit(MinimalPayload(1), k) : k \in DOMAIN MinimalPayload(1)}
    \cup NullPayloads \cup TerminalPayloads

LoadPayload(t) ==
    /\ local[t] = NoAttrs
    /\ \E p \in WidePayloads : Load(t, GoodEnv, JsonReply(200, [data |-> p]))

NextPayload ==
    \/ LoadPayload(MainThread)
    \/ Cleanup(MainThread)
    \/ Accessor(MainThread, Providers, Settings)

SpecPayload == Init /\ [][NextPayload]_vars

(***************************************************************************)
(* Vocabulary of the properties                                            *)
(***************************************************************************)
\* the most recent call was op, made by a thread whose most recent load() or
\* cleanup() is a load() that returned
CalledLoaded(op) == last.op = op /\ phase[last.thread] = "loaded"

\* the payload behind the context of the thread that made the most recent call
LastPayload == payload[last.thread]

\* everything the accessors can tell about a namespace
View(loc) ==
    <<get_repo_files(loc), get_repo_path(loc), get_current_file(loc), get_selection(loc),
      get_clip_board(loc), get_cursor(loc), get_chat_history(loc),
      get_current_terminal(loc), get_terminals(loc), get_code_apply_change(loc),
      get_context_files(loc), get_prompt(loc),
      [provider \in Providers |-> get_api_key(loc, provider)], get_api_keys(loc),
      [setting \in Settings |-> get_setting(loc, setting)], get_ui_action(loc)>>

\* the context a thread without one gets from payload p
FreshContext(p) == load(NoAttrs, config, GoodEnv, JsonReply(200, [data |-> p])).local

\* the number of entries of a list of Terminal flagged current
NumCurrent(terminals) == Cardinality({i \in DOMAIN terminals : terminals[i].is_current})

\* the number of entries of a list equal to x
NumEqual(list, x) == Cardinality({i \in DOMAIN list : list[i] = x})

C2_NonSuccessStatusFails ==
    (/\ last.op \in ActionNames \cup {"load"}
     /\ "status" \in DOMAIN last.reply
     /\ IsErrorStatus(last.reply.status)) => ~last.res.ok

(***************************************************************************)
(* C3 (SpecSession). The claim as stated: a load() that fails leaves the   *)
(* calling thread's namespace as it found it, so that no field of the      *)
(* failed load is held and every accessor and action behaves as before.    *)
(***************************************************************************)
C3_FailedLoadLeavesNothing ==
    (last.op = "load" /\ ~last.res.ok) =>
        /\ local[last.thread] = last.before
        /\ View(local[last.thread]) = View(last.before)

(***************************************************************************)
(* C4 (SpecPayload). The claim as stated: once load() has returned, every  *)
(* accessor called by that thread returns a value.                         *)
(***************************************************************************)
C4_AccessorsReturnAfterLoad ==
    (last.op \in AccessorNames /\ phase[last.thread] = "loaded") => last.res.ok

C6_OnlyLastPayloadVisible ==
    \A t \in Threads :
        phase[t] = "loaded" =>
            /\ View(local[t]) = View(FreshContext(payload[t]))
            /\ "selection" \notin DOMAIN payload[t] => get_selection(local[t]) = Ret(None)

C6_Witness ==
    /\ last.op = "load" /\ last.res.ok /\ last.thread = MainThread
    /\ HasAttr(last.before, "selection") /\ last.before.selection = "sel1"
    /\ "selection" \notin DOMAIN LastPayload
    /\ get_selection(local[MainThread]) = Ret(None)

(***************************************************************************)
(* C7 (Spec). An accessor or an action called by a thread that never       *)
(* called load(), or whose most recent load() or cleanup() call is a       *)
(* cleanup(), raises, and no POST goes out.                                *)
(***************************************************************************)
C7_FailsOutsideLoaded ==
    (/\ last.op \in AccessorNames \cup ActionNames
     /\ phase[last.thread] \in {"never", "cleaned"}) =>
        (~last.res.ok /\ last.posts = <<>>)

C7_Witness ==
    /\ last.op = "chat" /\ phase[last.thread] = "cleaned"
    /\ last.res = Raise("AttributeError")
    /\ \E u \in Threads : phase[u] = "loaded"

(***************************************************************************)
(* C8 (Spec). A call made by one thread leaves the namespace of every      *)
(* other thread as it was. What a thread's accessors return, the           *)
(* request_id its actions send and whether it holds a context are          *)
(* functions of its namespace alone (View, Body, HasAttr), so none of them *)
(* changes either.                                                         *)
(***************************************************************************)
C8_ThreadsIsolated ==
    [][\A u \in Threads : u # last'.thread => local'[u] = local[u]]_vars

C8_Witness ==
    /\ last.thread = 2 /\ last.op = "cleanup" /\ HasAttr(last.before, "request_id")
    /\ phase[1] = "loaded" /\ payload[1] = FullPayload(1)
    /\ get_selection(local[1]) = Ret("sel1")

(***************************************************************************)
(* C9 (Spec). cleanup() always returns, also for a thread without context; *)
(* it leaves the calling thread no attribute, and a second cleanup()       *)
(* changes nothing.                                                        *)
(***************************************************************************)
C9_CleanupTotalIdempotent ==
    last.op = "cleanup" =>
        /\ last.res.ok
        /\ DOMAIN local[last.thread] = {}
        /\ View(local[last.thread]) = View(NoAttrs)
        /\ cleanup(local[last.thread]) = local[last.thread]

C9_Witness ==
    /\ last.op = "cleanup" /\ last.before = NoAttrs /\ last.res.ok
    /\ \E u \in Threads : phase[u] = "loaded"

(***************************************************************************)
(* C10 (SpecPayload). get_terminals() returns one Terminal per identifier  *)
(* of the payload's terminals, in the payload's order; when                *)
(* current_terminal is present and equals exactly one entry of the list,   *)
(* exactly one Terminal is flagged current, and it is that entry; when     *)
(* current_terminal is None (null or omitted) none is flagged.             *)
(***************************************************************************)
C10_TerminalsFlagged ==
    CalledLoaded("get_terminals") =>
        LET ts == DictGet(LastPayload, "terminals", EmptyList)
            cur == DictGet(LastPayload, "current_terminal", None)
            out == last.res.val
        IN  /\ last.res.ok
            /\ Len(out) = Len(ts)
            /\ \A i \in DOMAIN ts : out[i].name = ts[i]
            /\ (cur # None /\ NumEqual(ts, cur) = 1) =>
                    (/\ NumCurrent(out) = 1
                     /\ \A i \in DOMAIN out : out[i].is_current <=> ts[i] = cur)
            /\ cur = None => NumCurrent(out) = 0

C10_Witness ==
    /\ CalledLoaded("get_terminals")
    /\ "terminals" \in DOMAIN LastPayload /\ LastPayload.terminals = <<"t1", "t2">>
    /\ "current_terminal" \in DOMAIN LastPayload /\ LastPayload.current_terminal = "t2"
    /\ last.res = Ret(<<Terminal("t1", FALSE), Terminal("t2", TRUE)>>)

====
